---- MODULE Spec2Model ----
(***************************************************************************)
(* Model of the currency-rates ingestion pipeline: the storage contract    *)
(* (db/repository.rs), the provider adapters (providers/ecb.rs, nbu.rs),   *)
(* the gap filler (providers/mod.rs) and the sync orchestrator             *)
(* (service.rs) driven by the three sync triggers (main.rs, handlers.rs).  *)
(***************************************************************************)
EXTENDS Integers, Sequences, FiniteSets, Bags, TLC

VARIABLES
    today,        \* chrono::Utc::now().date_naive(), as a day number
    rows,         \* table exchange_rates: a bag of rows (the id column left out)
    currencies,   \* table currencies: code (PRIMARY KEY) -> [name, provider]
    sync_log,     \* table sync_log: a bag of rows (id and synced_at left out)
    order,        \* iteration order of the registry's HashMap (fixed per process)
    tasks,        \* the async tasks running sync_all_providers / sync_provider
    faults,       \* how many storage and remote failures have happened
    hist,         \* the storage calls of the storage-only specification
    pure          \* the call of a function checked on its own: input and result

vars == <<today, rows, currencies, sync_log, order, tasks, faults, hist, pure>>

(***************************************************************************)
(* Bounds of the model.                                                    *)
(***************************************************************************)
\* number of sync calls (task slots) in one behaviour
MaxTasks == 2
\* first value of the clock (day 92 = 2020-04-01, so the window spans a month end)
StartDay == 92
\* how many times the clock moves to the next day
MaxTicks == 1
\* number of storage operations that fail in one behaviour
MaxDbFaults == 1
\* number of remote requests that fail in one behaviour
MaxRemoteFaults == 1
\* number of most recent days a remote document may carry
Window == 2
\* number of store calls in a behaviour of the storage-only specification
MaxStores == 2

None == "None"

\* Option<NaiveDate>: <<>> is None, <<d>> is Some(d)
NoDate == <<>>
Some(d) == <<d>>

\* no provider call
NoCall == [op |-> "none", start |-> NoDate, end |-> 0]

(***************************************************************************)
(* Dates.  A NaiveDate is a day number, day 1 being 2020-01-01.  The TEXT  *)
(* column holds date.to_string(), "%Y-%m-%d": zero-padded fields of fixed  *)
(* width, so SQLite's text comparison is the lexicographic comparison of   *)
(* <<year, month, day>>.                                                   *)
(***************************************************************************)
MonthLen == <<31, 29, 31, 30, 31, 30, 31, 31, 30, 31, 30, 31>>

RECURSIVE MonthOf(_, _)
MonthOf(n, m) == IF m < 12 /\ n > MonthLen[m] THEN MonthOf(n - MonthLen[m], m + 1)
                 ELSE <<m, n>>

\* NaiveDate::to_string for a day of 2020
date_to_string(n) == LET md == MonthOf(n, 1) IN <<2020, md[1], md[2]>>

RECURSIVE DaysBefore(_)
DaysBefore(m) == IF m = 1 THEN 0 ELSE MonthLen[m - 1] + DaysBefore(m - 1)

\* NaiveDate::parse_from_str(s, "%Y-%m-%d")
parse_from_str(s) == DaysBefore(s[2]) + s[3]

\* text comparison of two stored dates
TextLess(a, b) ==
    \/ a[1] < b[1]
    \/ a[1] = b[1] /\ a[2] < b[2]
    \/ a[1] = b[1] /\ a[2] = b[2] /\ a[3] < b[3]

TextLeq(a, b) == a = b \/ TextLess(a, b)

(***************************************************************************)
(* Rates.  An f64 rate is modelled by the exact rational <<num, den>> in   *)
(* lowest terms.                                                           *)
(***************************************************************************)
RECURSIVE GCD(_, _)
GCD(a, b) == IF b = 0 THEN a ELSE GCD(b, a % b)

Norm(n, d) == LET g == GCD(n, d) IN <<n \div g, d \div g>>

One == <<1, 1>>

\* a / b
RDiv(a, b) == Norm(a[1] * b[2], a[2] * b[1])

INTERNAL_BASE == "USD"

\* a fixed enumeration order for the keys of a HashMap<String, f64>
CodeOrder == <<"USD", "EUR", "JPY", "UAH", "KZT">>

KeysInOrder(m) == SelectSeq(CodeOrder, LAMBDA c : c \in DOMAIN m)


(***************************************************************************)
(* Storage: db/repository.rs.                                              *)
(***************************************************************************)
Ok(n) == [ok |-> TRUE, count |-> n, err |-> None, at |-> None]
NoRes == [ok |-> FALSE, count |-> 0, err |-> None, at |-> None]

\* the early return Ok(0) of sync_provider for a provider that is up to date
UpToDate == [ok |-> TRUE, count |-> 0, err |-> None, at |-> "up_to_date"]
Err(kind, where) == [ok |-> FALSE, count |-> 0, err |-> kind, at |-> where]

\* the columns of UNIQUE(date, base_currency, target_currency, provider)
SameKey(r, s) ==
    /\ r.date = s.date
    /\ r.base_currency = s.base_currency
    /\ r.target_currency = s.target_currency
    /\ r.provider = s.provider

\* a plain INSERT, as if the table had no UNIQUE constraint to resolve
insert_plain(tbl, r) == tbl (+) SetToBag({r})

\* INSERT OR REPLACE INTO exchange_rates: the conflicting row is deleted first
insert_or_replace(tbl, r) ==
    LET kept == {s \in DOMAIN tbl : ~SameKey(s, r)}
    IN  [s \in kept |-> tbl[s]] (+) SetToBag({r})

\* the same expansion without the `continue` that skips the base currency
RowsOfWithBase(daily) ==
    LET ks == KeysInOrder(daily.rates)
    IN  [i \in 1..Len(ks) |->
            [date |-> date_to_string(daily.date),
             base_currency |-> daily.base_currency,
             target_currency |-> ks[i],
             rate |-> daily.rates[ks[i]],
             provider |-> daily.provider]]

\* the rows one DailyRates expands to, the base currency's own entry skipped
RowsOf(daily) ==
    LET ks == SelectSeq(KeysInOrder(daily.rates),
                        LAMBDA c : c # daily.base_currency)
    IN  [i \in 1..Len(ks) |->
            [date |-> date_to_string(daily.date),
             base_currency |-> daily.base_currency,
             target_currency |-> ks[i],
             rate |-> daily.rates[ks[i]],
             provider |-> daily.provider]]

RECURSIVE Inserts(_)
Inserts(batch) ==
    IF batch = <<>> THEN <<>> ELSE RowsOf(Head(batch)) \o Inserts(Tail(batch))

\* the table after the first k inserts of the transaction
RECURSIVE ApplyInserts(_, _, _)
ApplyInserts(tbl, ins, k) ==
    IF k = 0 THEN tbl
    ELSE insert_or_replace(ApplyInserts(tbl, ins, k - 1), ins[k])

\* where a store_daily_rates_batch call can fail: 0 = nowhere, i = the i-th
\* insert, n + 1 = the commit, n + 2 = pool.begin()
FailPoints(batch) == 0..(Len(Inserts(batch)) + 2)

\* the same call with each insert committed on its own (no rollback)
store_daily_rates_batch_autocommit(tbl, batch, fail) ==
    LET ins == Inserts(batch)
        n == Len(ins)
    IN  IF fail = 0
        THEN [rows |-> ApplyInserts(tbl, ins, n), res |-> Ok(n)]
        ELSE [rows |-> ApplyInserts(tbl, ins, IF fail > n THEN (IF fail = n + 2 THEN 0 ELSE n) ELSE fail - 1),
              res |-> Err("Database", "store_daily_rates_batch")]

\* store_daily_rates_batch: every insert runs in one transaction; an error
\* returns through `?`, the transaction is dropped and rolls back
store_daily_rates_batch(tbl, batch, fail) ==
    LET ins == Inserts(batch)
        n == Len(ins)
    IN  IF fail = 0
        THEN [rows |-> ApplyInserts(tbl, ins, n), res |-> Ok(n)]
        ELSE [rows |-> tbl, res |-> Err("Database", "store_daily_rates_batch")]

\* SELECT MAX(date) FROM exchange_rates [WHERE provider = ?], then parsed
get_latest_date(tbl, provider) ==
    LET ds == {r.date : r \in {s \in DOMAIN tbl :
                                 provider = None \/ s.provider = provider}}
    IN  IF ds = {} THEN NoDate
        ELSE Some(parse_from_str(CHOOSE d \in ds : \A e \in ds : TextLeq(e, d)))

\* SELECT ... WHERE date = ? AND base_currency = ? [AND provider = ?],
\* collected into a HashMap target_currency -> rate
get_rates_for_date(tbl, date, base_currency, provider) ==
    LET hit == {r \in DOMAIN tbl :
                    /\ r.date = date_to_string(date)
                    /\ r.base_currency = base_currency
                    /\ (provider = None \/ r.provider = provider)}
    IN  [c \in {r.target_currency : r \in hit} |->
            (CHOOSE r \in hit : r.target_currency = c).rate]

\* the stored quotes taken as they are, the pivot not inserted
insert_pivot_skipped(usd_rates, base) == usd_rates

\* RatesService::get_rates_for_date: full_rates.insert(INTERNAL_BASE, 1.0)
insert_pivot(usd_rates, base) ==
    [c \in DOMAIN usd_rates \cup {base} |-> IF c = base THEN One ELSE usd_rates[c]]

\* SELECT COUNT(*) FROM exchange_rates WHERE provider = ?
get_rates_count(tbl, provider) ==
    LET sel == {r \in DOMAIN tbl : r.provider = provider}
    IN  BagCardinality([r \in sel |-> tbl[r]])

\* the catalog after the first k INSERT OR REPLACE INTO currencies
RECURSIVE ApplyCurrencies(_, _, _, _)
ApplyCurrencies(cat, pairs, provider, k) ==
    IF k = 0 THEN cat
    ELSE LET c == ApplyCurrencies(cat, pairs, provider, k - 1)
         IN  [x \in DOMAIN c \cup {pairs[k][1]} |->
                 IF x = pairs[k][1]
                 THEN [name |-> pairs[k][2], provider |-> provider]
                 ELSE c[x]]

\* store_currencies: one statement per pair, no transaction; fail = 0 for no
\* failure, k for a failure of the k-th statement
store_currencies(cat, pairs, provider, fail) ==
    IF fail = 0
    THEN [currencies |-> ApplyCurrencies(cat, pairs, provider, Len(pairs)),
          res |-> Ok(0)]
    ELSE [currencies |-> ApplyCurrencies(cat, pairs, provider, fail - 1),
          res |-> Err("Database", "store_currencies")]

\* format!("error: {}", e), by the variant of e
ErrorStatus(kind) ==
    CASE kind = "Database" -> "error: Database error"
      [] kind = "Request" -> "error: HTTP request error"
      [] kind = "XmlParse" -> "error: XML parsing error"
      [] kind = "DateParse" -> "error: Date parsing error"
      [] kind = "Provider" -> "error: Provider error"

\* impl IntoResponse for AppError: the status code and the "error" text
into_response(kind) ==
    CASE kind = "Database" -> [status |-> 500, error |-> "Database error"]
      [] kind = "Request" -> [status |-> 502, error |-> "Failed to fetch external data"]
      [] kind = "XmlParse" -> [status |-> 500, error |-> "Failed to parse provider data"]
      [] kind = "DateParse" -> [status |-> 400, error |-> "Invalid date format"]
      [] kind = "Provider" -> [status |-> 502, error |-> "Provider error"]

\* INSERT INTO sync_log (provider, records_count, status)
log_sync(log, provider, records_count, status) ==
    log (+) SetToBag({[provider |-> provider, records_count |-> records_count,
                       status |-> status]})

(***************************************************************************)
(* Gap filler: providers/mod.rs.                                           *)
(***************************************************************************)
\* Vec::sort_by_key(|r| r.date): a stable sort
RECURSIVE InsertByDate(_, _)
InsertByDate(sorted, x) ==
    IF sorted = <<>> THEN <<x>>
    ELSE IF sorted[Len(sorted)].date <= x.date THEN Append(sorted, x)
    ELSE Append(InsertByDate(SubSeq(sorted, 1, Len(sorted) - 1), x),
                sorted[Len(sorted)])

\* the input taken in the order given
NoSort(rates) == rates

RECURSIVE SortByDate(_)
SortByDate(rates) ==
    IF rates = <<>> THEN <<>>
    ELSE InsertByDate(SortByDate(SubSeq(rates, 1, Len(rates) - 1)),
                      rates[Len(rates)])

\* the synthetic entries with the base currency written as the internal base
FillRunFixedBase(prev, from, to, provider_name) ==
    [i \in 1..(IF to >= from THEN to - from + 1 ELSE 0) |->
        [date |-> from + i - 1,
         base_currency |-> INTERNAL_BASE,
         rates |-> prev.rates,
         provider |-> provider_name]]

\* the synthetic entries cloned whole from prev, provider tag included
FillRunKeepsProvider(prev, from, to, provider_name) ==
    [i \in 1..(IF to >= from THEN to - from + 1 ELSE 0) |->
        [date |-> from + i - 1,
         base_currency |-> prev.base_currency,
         rates |-> prev.rates,
         provider |-> prev.provider]]

\* the synthetic entries for the days from..to, copied from prev
FillRun(prev, from, to, provider_name) ==
    [i \in 1..(IF to >= from THEN to - from + 1 ELSE 0) |->
        [date |-> from + i - 1,
         base_currency |-> prev.base_currency,
         rates |-> prev.rates,
         provider |-> provider_name]]

\* the for loop over the sorted entries, from index i on
RECURSIVE FillWalk(_, _, _)
FillWalk(sorted, i, provider_name) ==
    IF i > Len(sorted) THEN <<>>
    ELSE (IF i > 1
          THEN FillRun(sorted[i - 1], sorted[i - 1].date + 1,
                       sorted[i].date - 1, provider_name)
          ELSE <<>>)
         \o <<sorted[i]>> \o FillWalk(sorted, i + 1, provider_name)

\* fill_gaps, `now` being the process's current date
fill_gaps(rates, provider_name, now) ==
    IF rates = <<>> THEN <<>>
    ELSE LET filled == FillWalk(SortByDate(rates), 1, provider_name)
             last == filled[Len(filled)]
         IN  filled \o FillRun(last, last.date + 1, now, provider_name)

(***************************************************************************)
(* The EUR-pivoted adapter: providers/ecb.rs.                              *)
(***************************************************************************)
HIST_DAYS == 90

\* as if the adapter handed on the source's native pivot
EcbBaseNative == "EUR"

\* the base currency a DailyRates of parse_xml carries
EcbBase == "USD"

\* one <Cube time=...> node turned into a DailyRates, or <<>> when the node
\* has no USD quote
parse_cube(cube) ==
    LET eur_rates == [c \in {"EUR"} \cup DOMAIN cube.rates |->
                         IF c \in DOMAIN cube.rates THEN cube.rates[c] ELSE One]
    IN  IF "USD" \notin DOMAIN eur_rates THEN <<>>
        ELSE <<[date |-> parse_from_str(cube.time),
                base_currency |-> EcbBase,
                rates |-> [c \in DOMAIN eur_rates |->
                              IF c = "USD" THEN One
                              ELSE RDiv(eur_rates[c], eur_rates["USD"])],
                provider |-> "ecb"]>>

\* parse_xml over the document's time cubes, in document order
RECURSIVE parse_xml(_)
parse_xml(doc) ==
    IF doc = <<>> THEN <<>> ELSE parse_cube(Head(doc)) \o parse_xml(Tail(doc))

\* fetch_and_parse: resp is the error of the request or of the parse, or a
\* document
fetch_and_parse(resp, now) ==
    IF resp.err # None THEN [ok |-> FALSE, err |-> resp.err, rates |-> <<>>]
    ELSE [ok |-> TRUE, err |-> None,
          rates |-> fill_gaps(parse_xml(resp.doc), "ecb", now)]

\* which document fetch_range asks for
EcbUrl(start, now) ==
    IF start >= now - HIST_DAYS THEN "ECB_HIST_90D_URL" ELSE "ECB_HIST_FULL_URL"

ecb_fetch_range(start, end, resp, now) ==
    LET got == fetch_and_parse(resp, now)
    IN  [got EXCEPT !.rates =
            SelectSeq(got.rates, LAMBDA r : r.date >= start /\ r.date <= end)]

ecb_fetch_full_history(resp, now) == fetch_and_parse(resp, now)

\* supported_currencies of the ECB adapter (the first entries of its list)
ecb_supported_currencies ==
    <<<<"EUR", "Euro">>, <<"USD", "US Dollar">>>>

(***************************************************************************)
(* The UAH-pivoted adapter: providers/nbu.rs.                              *)
(***************************************************************************)
\* the tracked codes (the first entries of NBU_CURRENCIES)
NBU_CURRENCIES == <<"UAH", "KZT">>

currencies_to_fetch ==
    <<INTERNAL_BASE>> \o SelectSeq(NBU_CURRENCIES, LAMBDA c : c # INTERNAL_BASE)

\* 1999-01-04 as a day number
NbuHistoryStart == -7666

\* uah_rates_by_date after the batch responses of the codes i.. are merged in;
\* resp[c].fail tells a failed or unparsable response, resp[c].recs is the
\* function date -> rate_per_unit of the records
RECURSIVE MergeBatches(_, _, _)
MergeBatches(acc, resp, i) ==
    IF i > Len(currencies_to_fetch) THEN acc
    ELSE LET c == currencies_to_fetch[i]
             r == resp[c]
             next == IF r.fail THEN acc
                     ELSE [d \in DOMAIN acc \cup DOMAIN r.recs |->
                             IF d \in DOMAIN r.recs
                             THEN [k \in (IF d \in DOMAIN acc THEN DOMAIN acc[d] ELSE {}) \cup {c} |->
                                      IF k = c THEN r.recs[d] ELSE acc[d][k]]
                             ELSE acc[d]]
         IN  MergeBatches(next, resp, i + 1)

\* one merged date turned into a DailyRates
nbu_daily(date, uah_rates) ==
    [date |-> date,
     base_currency |-> INTERNAL_BASE,
     rates |-> [c \in {INTERNAL_BASE, "UAH"} \cup DOMAIN uah_rates |->
                   IF c = INTERNAL_BASE THEN One
                   ELSE IF c \in DOMAIN uah_rates
                        THEN RDiv(uah_rates[INTERNAL_BASE], uah_rates[c])
                        ELSE uah_rates[INTERNAL_BASE]],
     provider |-> "nbu"]

\* fetch_range returning the error of a failed batch request
nbu_fetch_range_strict(start, end, resp) ==
    LET by_date == MergeBatches(<<>>, resp, 1)
        days == {d \in DOMAIN by_date : INTERNAL_BASE \in DOMAIN by_date[d]}
        unsorted == [d \in days |-> nbu_daily(d, by_date[d])]
        RECURSIVE Asc(_)
        Asc(S) == IF S = {} THEN <<>>
                  ELSE LET m == CHOOSE x \in S : \A y \in S : x <= y
                       IN  <<unsorted[m]>> \o Asc(S \ {m})
    IN  IF \E c \in DOMAIN resp : resp[c].fail
        THEN [ok |-> FALSE, err |-> "Request", rates |-> <<>>]
        ELSE [ok |-> TRUE, err |-> None, rates |-> Asc(days)]

\* fetch_range of the NBU adapter: never an error; dates without the USD quote
\* are skipped; the result is sorted by date
nbu_fetch_range(start, end, resp) ==
    LET by_date == MergeBatches(<<>>, resp, 1)
        days == {d \in DOMAIN by_date : INTERNAL_BASE \in DOMAIN by_date[d]}
        unsorted == [d \in days |-> nbu_daily(d, by_date[d])]
        RECURSIVE Asc(_)
        Asc(S) == IF S = {} THEN <<>>
                  ELSE LET m == CHOOSE x \in S : \A y \in S : x <= y
                       IN  <<unsorted[m]>> \o Asc(S \ {m})
    IN  [ok |-> TRUE, err |-> None, rates |-> Asc(days)]

nbu_fetch_full_history(resp, now) == nbu_fetch_range(NbuHistoryStart, now, resp)

(***************************************************************************)
(* What the remote sources may answer.                                     *)
(***************************************************************************)
\* the days a remote document may carry when asked on day `now`
WindowDays(now) == {d \in (now - Window + 1)..now : d >= 1}

\* the quotes an ECB time cube may carry, against EUR: a full cube, one
\* without the USD quote, and one with the USD quote alone
EcbCubeRates ==
    <<[c \in {"USD", "JPY"} |-> IF c = "USD" THEN <<2, 1>> ELSE <<4, 1>>],
      [c \in {"JPY"} |-> <<4, 1>>],
      [c \in {"USD"} |-> <<4, 1>>]>>

\* the days of S, newest first, as ECB lists them
RECURSIVE Desc(_)
Desc(S) == IF S = {} THEN <<>>
           ELSE LET m == CHOOSE x \in S : \A y \in S : x >= y
                IN  <<m>> \o Desc(S \ {m})

\* the document whose cube of day d is EcbCubeRates[f[d]], absent for f[d] = 0
EcbDoc(f) ==
    LET ds == Desc({d \in DOMAIN f : f[d] # 0})
    IN  [i \in 1..Len(ds) |->
            [time |-> date_to_string(ds[i]), rates |-> EcbCubeRates[f[ds[i]]]]]

\* what the ECB request of day `now` may end in: an error of the request or
\* of the parse, or a document with a full cube for every earlier day of the
\* window and, for the day itself, no cube yet or either kind of cube
EcbResponses(now) ==
    {[err |-> e, doc |-> <<>>] : e \in {"Request", "XmlParse", "DateParse"}}
    \cup {[err |-> None, doc |-> EcbDoc(f)] :
            f \in {g \in [WindowDays(now) -> 0..2] :
                     \A d \in WindowDays(now) : d < now => g[d] = 1}}

\* rate_per_unit of the NBU batch records, in UAH
NbuQuote(c) == IF c = "USD" THEN <<4, 1>> ELSE <<2, 1>>

\* the codes the remote has records for; the batch request of any other
\* tracked code is answered with the empty list
NbuRemoteCodes == {"USD", "KZT"}

\* what the batch requests of one fetch_range may end in: per code a failed
\* response, or the records of every earlier day of the window within
\* start..end, with or without the record of the day itself
NbuResponses(start, end, now) ==
    LET days == {d \in WindowDays(now) : start <= d /\ d <= end}
        answers(c) == IF c \in NbuRemoteCodes
                      THEN {[fail |-> TRUE, recs |-> <<>>]}
                           \cup {[fail |-> FALSE, recs |-> [d \in S |-> NbuQuote(c)]] :
                                    S \in {days, days \ {now}}}
                      ELSE {[fail |-> FALSE, recs |-> <<>>]}
        codes == {currencies_to_fetch[i] : i \in 1..Len(currencies_to_fetch)}
    IN  {r \in [codes -> UNION {answers(c) : c \in codes}] :
            \A c \in codes : r[c] \in answers(c)}

\* the current-snapshot endpoint as supported_currencies reads it: a failed
\* request, or the (cc, txt) pairs of the records
NbuSnapshots ==
    {[fail |-> TRUE, recs |-> <<>>],
     [fail |-> FALSE, recs |-> <<<<"USD", "Dolar SShA">>>>]}

nbu_supported_currencies(snapshot) ==
    <<<<"UAH", "Ukrainian Hryvnia">>>> \o snapshot.recs

(***************************************************************************)
(* The sync orchestrator: service.rs, and its triggers.                    *)
(***************************************************************************)
Tasks == 1..MaxTasks

\* ProviderRegistry after main has registered EcbProvider and NbuProvider
Registry == {"ecb", "nbu"}

\* the names a POST /sync/{provider} request may carry
RequestNames == Registry \cup {"xyz"}

IdleTask ==
    [pc |-> "idle", kind |-> None, name |-> None, idx |-> 0, last |-> NoDate,
     call |-> NoCall, rates |-> <<>>, count |-> 0, res |-> NoRes,
     nfail |-> 0, ret |-> NoRes]

\* the last store call of the storage-only specification: its batch, the
\* table before it, where it failed, its result, and the call before it
NoHist == [n |-> 0, batch |-> <<>>, before |-> EmptyBag, fail |-> 0,
           res |-> NoRes, prev |-> [batch |-> <<>>, ok |-> FALSE]]

\* no function call under check
NoPure == [op |-> "none", input |-> <<>>, out |-> <<>>, done |-> FALSE]

Init ==
    /\ today = StartDay
    /\ rows = EmptyBag
    /\ currencies = <<>>
    /\ sync_log = EmptyBag
    /\ order \in {<<"ecb", "nbu">>, <<"nbu", "ecb">>}
    /\ tasks = [t \in Tasks |-> IdleTask]
    /\ faults = [db |-> 0, remote |-> 0]
    /\ hist = NoHist
    /\ pure = NoPure

\* as if the lookup failure were reported like a failed request
unknown_provider_as_request == Err("Request", "lookup")

\* the error of sync_provider for a name the registry does not hold
unknown_provider == Err("Provider", "lookup")

\* the incremental range starting the day after the last stored date
fetch_call_exclusive(last, now) ==
    IF last = NoDate THEN [op |-> "fetch_full_history", start |-> NoDate, end |-> now]
    ELSE IF last[1] >= now THEN NoCall
    ELSE [op |-> "fetch_range", start |-> Some(last[1] + 1), end |-> now]

\* the up-to-date test written with > instead of >=
fetch_call_strict(last, now) ==
    IF last = NoDate THEN [op |-> "fetch_full_history", start |-> NoDate, end |-> now]
    ELSE IF last[1] > now THEN NoCall
    ELSE [op |-> "fetch_range", start |-> last, end |-> now]

\* the provider call sync_provider issues once it knows the last stored date
\* (end is the date read when the call is issued); NoCall when the provider
\* is up to date
fetch_call(last, now) ==
    IF last = NoDate THEN [op |-> "fetch_full_history", start |-> NoDate, end |-> now]
    ELSE IF last[1] >= now THEN NoCall
    ELSE [op |-> "fetch_range", start |-> last, end |-> now]

\* as if the for loop of sync_all_providers gave up at the first failed provider
loop_stops_on_error(res) == res.ok

\* whether the for loop of sync_all_providers goes on after a provider's
\* result has been logged: both match arms fall through to the next iteration
loop_continues(res) == TRUE

\* sync_provider has returned res to its caller: a sync_all_providers loop
\* goes on to log it, a trigger_provider_sync handler responds
Return(ts, t, res) ==
    IF ts[t].kind = "all"
    THEN [ts EXCEPT ![t].pc = "log_sync", ![t].res = res,
                    ![t].nfail = IF res.ok \/ res.err = "Database" THEN @ ELSE @ + 1,
                    ![t].last = NoDate, ![t].call = NoCall,
                    ![t].rates = <<>>, ![t].count = 0]
    ELSE [ts EXCEPT ![t].pc = "done", ![t].res = res, ![t].ret = res,
                    ![t].last = NoDate, ![t].call = NoCall,
                    ![t].rates = <<>>, ![t].count = 0]

\* a storage operation fails (f) or not, within the budget of failures
DbFault(f) ==
    /\ f => faults.db < MaxDbFaults
    /\ faults' = IF f THEN [faults EXCEPT !.db = @ + 1] ELSE faults

\* a remote request fails (f) or not, within the budget of failures
RemoteFault(f) ==
    /\ f => faults.remote < MaxRemoteFaults
    /\ faults' = IF f THEN [faults EXCEPT !.remote = @ + 1] ELSE faults

\* a task slot is taken in index order
CanStart(t) ==
    /\ tasks[t].pc = "idle"
    /\ IF t = 1 THEN TRUE ELSE tasks[t - 1].pc # "idle"

\* sync_all_providers is called: the loop enters sync_provider for the first
\* registered provider, up to its first await
StartAll(t) ==
    /\ CanStart(t)
    /\ tasks' = [tasks EXCEPT ![t] = [IdleTask EXCEPT !.pc = "get_latest_date",
                                        !.kind = "all", !.idx = 1,
                                        !.name = order[1]]]
    /\ UNCHANGED <<today, rows, currencies, sync_log, order, faults, hist, pure>>

\* main: the background sync spawned at process start, before any other trigger
Startup == StartAll(1)

\* main: a tick of the cron job
Cron == \E t \in Tasks : StartAll(t)

\* handlers.rs, POST /sync
TriggerSync == \E t \in Tasks : StartAll(t)

\* handlers.rs, POST /sync/{provider}: sync_provider up to its first await
TriggerProviderSync ==
    \E t \in Tasks, name \in RequestNames :
        /\ CanStart(t)
        /\ tasks' = [tasks EXCEPT ![t] =
                        IF name \in Registry
                        THEN [IdleTask EXCEPT !.pc = "get_latest_date",
                                              !.kind = "one", !.name = name]
                        ELSE [IdleTask EXCEPT !.pc = "done", !.kind = "one",
                                              !.name = name,
                                              !.res = unknown_provider,
                                              !.ret = unknown_provider]]
        /\ UNCHANGED <<today, rows, currencies, sync_log, order, faults, hist, pure>>

\* sync_provider: get_latest_date answers; the up-to-date test; the provider
\* call is issued with the current date
GetLatestDate ==
    \E t \in Tasks, fail \in BOOLEAN :
        /\ tasks[t].pc = "get_latest_date"
        /\ DbFault(fail)
        /\ IF fail
           THEN tasks' = Return(tasks, t, Err("Database", "get_latest_date"))
           ELSE LET last == get_latest_date(rows, tasks[t].name)
                    call == fetch_call(last, today)
                IN  IF call = NoCall
                    THEN tasks' = Return(tasks, t, UpToDate)
                    ELSE tasks' = [tasks EXCEPT ![t].pc = "fetch",
                                                ![t].last = last,
                                                ![t].call = call]
        /\ UNCHANGED <<today, rows, currencies, sync_log, order, hist, pure>>

\* whether a response of the remote counts as a failed request
EcbFailed(resp) == resp.err # None
NbuFailed(resp) == \E c \in DOMAIN resp : resp[c].fail

\* what the pending provider call of task t may return, given what the
\* remote answers: whether a request failed, and the result of the call
AnswerTo(t, resp) ==
    LET call == tasks[t].call
        full == call.op = "fetch_full_history"
    IN  IF tasks[t].name = "ecb"
        THEN [fault |-> EcbFailed(resp),
              got |-> IF full THEN ecb_fetch_full_history(resp, today)
                      ELSE ecb_fetch_range(call.start[1], call.end, resp, today)]
        ELSE [fault |-> NbuFailed(resp),
              got |-> IF full THEN nbu_fetch_full_history(resp, call.end)
                      ELSE nbu_fetch_range(call.start[1], call.end, resp)]

\* what the remote of task t's provider may answer to its pending call
Responses(t) ==
    LET call == tasks[t].call
    IN  IF tasks[t].name = "ecb" THEN EcbResponses(today)
        ELSE NbuResponses(IF call.op = "fetch_full_history" THEN NbuHistoryStart
                          ELSE call.start[1],
                          call.end, today)

\* the provider call of task t returns a
FetchAnswer(t, a) ==
    /\ tasks[t].pc = "fetch"
    /\ RemoteFault(a.fault)
    /\ tasks' = IF a.got.ok
                THEN [tasks EXCEPT ![t].pc = "store_daily_rates_batch",
                                   ![t].rates = a.got.rates]
                ELSE Return(tasks, t, Err(a.got.err, "fetch"))
    /\ UNCHANGED <<today, rows, currencies, sync_log, order, hist, pure>>

\* the provider's answer arrives: fetch_range / fetch_full_history returns
FetchRates ==
    \E t \in Tasks :
        /\ tasks[t].pc = "fetch"
        /\ \E resp \in Responses(t) : FetchAnswer(t, AnswerTo(t, resp))

\* sync_provider: store_daily_rates_batch returns
StoreRates ==
    \E t \in Tasks :
        /\ tasks[t].pc = "store_daily_rates_batch"
        /\ \E fail \in FailPoints(tasks[t].rates) :
              LET out == store_daily_rates_batch(rows, tasks[t].rates, fail)
              IN  /\ DbFault(fail # 0)
                  /\ rows' = out.rows
                  /\ tasks' = IF out.res.ok
                              THEN [tasks EXCEPT ![t].pc = "store_currencies",
                                                 ![t].count = out.res.count,
                                                 ![t].rates = <<>>]
                              ELSE Return(tasks, t, out.res)
        /\ UNCHANGED <<today, currencies, sync_log, order, hist, pure>>

\* what supported_currencies of the provider may return: the ECB list is
\* built in memory, the NBU list comes from the current-snapshot endpoint
SupportedCurrencies(name) ==
    IF name = "ecb" THEN {[ok |-> TRUE, list |-> ecb_supported_currencies]}
    ELSE {IF snapshot.fail THEN [ok |-> FALSE, list |-> <<>>]
          ELSE [ok |-> TRUE, list |-> nbu_supported_currencies(snapshot)] :
             snapshot \in NbuSnapshots}

\* sync_provider: supported_currencies returns, then store_currencies, and
\* sync_provider with it
StoreCurrencies ==
    \E t \in Tasks :
        /\ tasks[t].pc = "store_currencies"
        /\ \E sup \in SupportedCurrencies(tasks[t].name) :
              IF ~sup.ok
              THEN /\ RemoteFault(TRUE)
                   /\ tasks' = Return(tasks, t, Err("Request", "supported_currencies"))
                   /\ UNCHANGED currencies
              ELSE \E fail \in 0..Len(sup.list) :
                      LET out == store_currencies(currencies, sup.list,
                                                  tasks[t].name, fail)
                      IN  /\ DbFault(fail # 0)
                          /\ currencies' = out.currencies
                          /\ tasks' = Return(tasks, t,
                                             IF out.res.ok THEN Ok(tasks[t].count)
                                             ELSE out.res)
        /\ UNCHANGED <<today, rows, sync_log, order, hist, pure>>

\* sync_all_providers: log_sync returns; the loop goes on with the next
\* provider, up to the first await of its sync_provider, or the call returns
LogSync ==
    \E t \in Tasks, fail \in BOOLEAN :
        /\ tasks[t].pc = "log_sync"
        /\ DbFault(fail)
        /\ LET res == tasks[t].res
               idx == tasks[t].idx
           IN  IF fail
               THEN /\ tasks' = [tasks EXCEPT ![t].pc = "done", ![t].res = NoRes,
                                              ![t].ret = Err("Database", "log_sync")]
                    /\ UNCHANGED sync_log
               ELSE /\ sync_log' = log_sync(sync_log, tasks[t].name, res.count,
                                            IF res.ok THEN "success"
                                            ELSE ErrorStatus(res.err))
                    /\ tasks' = IF idx < Len(order) /\ loop_continues(res)
                                THEN [tasks EXCEPT ![t].pc = "get_latest_date",
                                                   ![t].idx = idx + 1,
                                                   ![t].name = order[idx + 1],
                                                   ![t].res = NoRes]
                                ELSE [tasks EXCEPT ![t].pc = "done", ![t].res = NoRes,
                                                   ![t].ret = Ok(0)]
        /\ UNCHANGED <<today, rows, currencies, order, hist, pure>>

\* midnight UTC
Tick ==
    /\ today < StartDay + MaxTicks
    /\ today' = today + 1
    /\ UNCHANGED <<rows, currencies, sync_log, order, tasks, faults, hist, pure>>

Next ==
    \/ Startup
    \/ Cron
    \/ TriggerSync
    \/ TriggerProviderSync
    \/ GetLatestDate
    \/ FetchRates
    \/ StoreRates
    \/ StoreCurrencies
    \/ LogSync
    \/ Tick

Spec == Init /\ [][Next]_vars

(***************************************************************************)
(* Properties of the orchestrator, checked under Spec.                     *)
(***************************************************************************)
\* the program points of sync_provider between reading the provider's latest
\* stored date and finishing its writes
InFlightPcs == {"get_latest_date", "fetch", "store_daily_rates_batch",
                "store_currencies"}

InFlight(t, p) == tasks[t].name = p /\ tasks[t].pc \in InFlightPcs

\* C1: at any moment at most one sync of a given provider name is in flight:
\* two executions of sync_provider for the same provider never overlap between
\* reading the latest stored date and finishing their writes.
C1_SerializedPerProvider ==
    \A p \in Registry : Cardinality({t \in Tasks : InFlight(t, p)}) <= 1

\* a sync_all_providers call that has returned
AllDone(t) == tasks[t].kind = "all" /\ tasks[t].pc = "done"

StoredDays(p) == {parse_from_str(r.date) : r \in {s \in DOMAIN rows : s.provider = p}}

LatestDay(S) == CHOOSE d \in S : \A e \in S : e <= d

\* the step in which sync_provider of task t gets the latest date from
\* storage and decides what to do
Decides(t) ==
    /\ tasks[t].pc = "get_latest_date"
    /\ tasks'[t] # tasks[t]
    /\ faults' = faults

\* C3: sync_provider calls fetch_full_history exactly when storage holds no
\* date for the provider, and fetch_range(last_stored_date, today), boundary
\* day included, exactly when a latest stored date exists and is before today.
C3_FetchChoice ==
    [][\A t \in Tasks :
         Decides(t) =>
            LET days == StoredDays(tasks[t].name)
                call == tasks'[t].call
                calls == tasks'[t].pc = "fetch"
            IN  /\ (calls /\ call.op = "fetch_full_history") <=> days = {}
                /\ (calls /\ call.op = "fetch_range") <=>
                        (days # {} /\ LatestDay(days) < today)
                /\ calls /\ call.op = "fetch_range" =>
                        /\ call.start = Some(LatestDay(days))
                        /\ call.end = today
                /\ calls => call.op \in {"fetch_full_history", "fetch_range"}]_vars

\* an incremental fetch is pending whose range starts on a stored day
C3_Witness ==
    \E t \in Tasks :
        /\ tasks[t].pc = "fetch"
        /\ tasks[t].call.op = "fetch_range"
        /\ tasks[t].call.start[1] \in StoredDays(tasks[t].name)
        /\ tasks[t].call.start[1] < tasks[t].call.end

\* C4: when the provider's latest stored date is today or later, sync_provider
\* reports 0 records, makes no provider fetch call and leaves the stored
\* rows and the currency catalog unchanged.
C4_UpToDateNoOp ==
    [][\A t \in Tasks :
         Decides(t) /\ StoredDays(tasks[t].name) # {}
                    /\ LatestDay(StoredDays(tasks[t].name)) >= today =>
            /\ tasks'[t].pc \in {"log_sync", "done"}
            /\ tasks'[t].res.ok /\ tasks'[t].res.count = 0
            /\ tasks'[t].call = NoCall
            /\ rows' = rows
            /\ currencies' = currencies]_vars

\* a sync has returned through the up-to-date branch, rows being stored
C4_Witness ==
    \E t \in Tasks :
        /\ tasks[t].res = UpToDate
        /\ LatestDay(StoredDays(tasks[t].name)) >= today

\* a sync_provider call of the single-provider trigger that has returned
OneDone(t) == tasks[t].kind = "one" /\ tasks[t].pc = "done"

\* C5: sync_provider(name) for a name not in the registry fails with an
\* unknown-provider condition that no failure of a known provider produces
\* (neither as an error variant nor as a response), and the call reads and
\* writes no stored state: it returns in its first step, storage untouched.
C5_UnknownProviderDistinct ==
    /\ [](\A t \in Tasks :
            /\ OneDone(t) =>
                  /\ tasks[t].name \notin Registry <=>
                        (~tasks[t].ret.ok /\ tasks[t].ret.err = "Provider")
                  /\ ~tasks[t].ret.ok =>
                        (tasks[t].name \notin Registry <=>
                            into_response(tasks[t].ret.err) = into_response("Provider"))
            /\ tasks[t].res.err = "Provider" => tasks[t].name \notin Registry
            /\ tasks[t].name \notin Registry \cup {None} => tasks[t].pc = "done")
    /\ [][\A t \in Tasks :
            tasks'[t].name \notin Registry \cup {None} /\ tasks'[t] # tasks[t] =>
                /\ tasks[t].pc = "idle"
                /\ UNCHANGED <<rows, currencies, sync_log, faults>>]_vars

\* a request for an unknown provider has been answered, and so has a request
\* for a known provider whose sync failed
C5_Witness ==
    \E t, u \in Tasks :
        /\ OneDone(t) /\ tasks[t].name \notin Registry
        /\ OneDone(u) /\ tasks[u].name \in Registry /\ ~tasks[u].ret.ok

\* the log rows of provider p
LogCount(p) ==
    LET sel == {e \in DOMAIN sync_log : e.provider = p}
    IN  BagCardinality([e \in sel |-> sync_log[e]])

\* the syncs of provider p that task t has completed, the one whose log write
\* is still pending left out
Completed(t, p) ==
    IF tasks[t].kind = "one"
    THEN (IF tasks[t].pc = "done" /\ tasks[t].name = p THEN 1 ELSE 0)
    ELSE Cardinality({i \in 1..Len(order) :
                        /\ order[i] = p
                        /\ \/ i < tasks[t].idx
                           \/ i = tasks[t].idx /\ tasks[t].pc = "done"})

RECURSIVE CompletedUpTo(_, _)
CompletedUpTo(n, p) ==
    IF n = 0 THEN 0 ELSE Completed(n, p) + CompletedUpTo(n - 1, p)

\* C6: every completed sync of a provider has recorded exactly one sync-log
\* entry, whichever trigger started it: the log holds as many entries of a
\* provider as syncs of it have completed, success entries carrying the
\* stored count and error entries count zero.
C6_OneLogEntryPerSync ==
    /\ \A p \in Registry : LogCount(p) = CompletedUpTo(MaxTasks, p)
    /\ \A e \in DOMAIN sync_log : e.status # "success" => e.records_count = 0

\* C10: every persisted exchange-rate row has base currency USD, and so has
\* every DailyRates an adapter has returned to sync_provider.
C10_InternalPivot ==
    /\ \A r \in DOMAIN rows : r.base_currency = INTERNAL_BASE
    /\ \A t \in Tasks : \A i \in 1..Len(tasks[t].rates) :
          tasks[t].rates[i].base_currency = INTERNAL_BASE

\* both adapters have rows in storage
C10_Witness ==
    /\ \E r \in DOMAIN rows : r.provider = "ecb"
    /\ \E r \in DOMAIN rows : r.provider = "nbu"

(***************************************************************************)
(* The storage contract on its own: store_daily_rates_batch called with    *)
(* batches as the adapters build them, over overlapping dates.             *)
(***************************************************************************)
\* an ECB document listing one day twice
EcbDocRepeated ==
    <<[time |-> date_to_string(StartDay), rates |-> EcbCubeRates[1]],
      [time |-> date_to_string(StartDay), rates |-> EcbCubeRates[3]]>>

\* the batches of the store calls: what the ECB adapter builds from the
\* documents over the window, and what the NBU adapter builds from the batch
\* responses over it
StoreBatches ==
    {fill_gaps(parse_xml(EcbDoc(f)), "ecb", StartDay) :
        f \in [WindowDays(StartDay) -> 0..Len(EcbCubeRates)]}
    \cup {fill_gaps(parse_xml(EcbDocRepeated), "ecb", StartDay)}
    \cup {nbu_fetch_range(StartDay - 1, StartDay, resp).rates :
            resp \in NbuResponses(StartDay - 1, StartDay, StartDay)}

InitStore == Init /\ order = <<"ecb", "nbu">>

\* a call of store_daily_rates_batch returns
StoreBatch ==
    \E batch \in StoreBatches :
        \E fail \in FailPoints(batch) :
            LET out == store_daily_rates_batch(rows, batch, fail)
            IN  /\ hist.n < MaxStores
                /\ rows' = out.rows
                /\ hist' = [n |-> hist.n + 1, batch |-> batch, before |-> rows,
                            fail |-> fail, res |-> out.res,
                            prev |-> [batch |-> hist.batch, ok |-> hist.res.ok]]
                /\ UNCHANGED <<today, currencies, sync_log, order, tasks, faults, pure>>

NextStore == StoreBatch

SpecStore == InitStore /\ [][NextStore]_vars

\* the last store call failed
StoreFailed == hist.n > 0 /\ ~hist.res.ok

\* the last store call succeeded
StoreOk == hist.n > 0 /\ hist.res.ok

\* C7: store_daily_rates_batch is atomic: after a call in which an insert
\* (or the begin or the commit) failed the stored rows equal those before the
\* call, and after a call that succeeded every row of the batch is stored.
C7_BatchAtomic ==
    /\ StoreFailed => rows = hist.before
    /\ StoreOk =>
          LET ins == Inserts(hist.batch)
          IN  \A i \in 1..Len(ins) : \E r \in DOMAIN rows : SameKey(r, ins[i])

\* a call failed after inserts that had changed the table
C7_Witness ==
    /\ StoreFailed
    /\ hist.fail > 1 /\ hist.fail <= Len(Inserts(hist.batch))
    /\ ApplyInserts(hist.before, Inserts(hist.batch), hist.fail - 1) # hist.before

\* C8: storing the same batch twice leaves the same rows and the same
\* get_rates_count as storing it once, and whatever has been stored there is
\* at most one row per (date, base, target, provider).
C8_StoreIdempotent ==
    /\ \A r \in DOMAIN rows :
          /\ rows[r] = 1
          /\ \A q \in DOMAIN rows : SameKey(q, r) => q = r
    /\ StoreOk /\ hist.prev.ok /\ hist.prev.batch = hist.batch =>
          /\ rows = hist.before
          /\ \A p \in Registry :
                get_rates_count(rows, p) = get_rates_count(hist.before, p)

\* a batch with rows has been stored twice in a row
C8_Witness ==
    /\ StoreOk /\ hist.prev.ok /\ hist.prev.batch = hist.batch
    /\ Inserts(hist.batch) # <<>>

\* the pairs of a DailyRates without the base currency's own entry
NonBase(d) == [c \in DOMAIN d.rates \ {d.base_currency} |-> d.rates[c]]

\* get_rates_for_date(d.date, d.base_currency, d.provider) on a table
ReadBack(tbl, d) == get_rates_for_date(tbl, d.date, d.base_currency, d.provider)

SameDay(d, e) ==
    d.date = e.date /\ d.base_currency = e.base_currency /\ d.provider = e.provider

\* C9 as stated: after a successful store of a batch, reading back any
\* DailyRates d of it returns exactly d's pairs except the base currency's
\* own entry; no stored row has target = base; inserting the pivot at 1.0
\* restores d's table.
C9_RoundTripExact ==
    StoreOk =>
        /\ \A i \in 1..Len(hist.batch) :
              LET d == hist.batch[i]
              IN  /\ ReadBack(rows, d) = NonBase(d)
                  /\ insert_pivot(ReadBack(rows, d), d.base_currency) = d.rates
        /\ \A r \in DOMAIN rows : r.target_currency # r.base_currency

\* C9 amended: after a successful store, reading back a DailyRates d that no
\* later entry of the batch shares its date, base and provider with returns
\* every pair of d except the base currency's own entry; any further pair read
\* belongs to a row written before d (by an earlier call or an earlier entry
\* of the batch), so the read is exactly d's pairs when there was none; no
\* stored row has target = base; inserting the pivot at 1.0 restores every
\* pair of d.
C9_RoundTrip ==
    StoreOk =>
        /\ \A i \in 1..Len(hist.batch) :
              LET d == hist.batch[i]
                  read == ReadBack(rows, d)
                  old == ReadBack(hist.before, d)
                  later == {j \in (i + 1)..Len(hist.batch) : SameDay(hist.batch[j], d)}
                  earlier == {j \in 1..(i - 1) : SameDay(hist.batch[j], d)}
              IN  later = {} =>
                    /\ \A c \in DOMAIN NonBase(d) :
                          c \in DOMAIN read /\ read[c] = d.rates[c]
                    /\ DOMAIN read \subseteq
                          DOMAIN NonBase(d) \cup DOMAIN old
                          \cup UNION {DOMAIN hist.batch[j].rates : j \in earlier}
                    /\ d.base_currency \notin DOMAIN read
                    /\ DOMAIN old \subseteq DOMAIN NonBase(d) /\ earlier = {}
                          => read = NonBase(d)
                    /\ \A c \in DOMAIN d.rates :
                          insert_pivot(read, d.base_currency)[c] = d.rates[c]
        /\ \A r \in DOMAIN rows : r.target_currency # r.base_currency

\* a day was stored again with fewer currencies: the read returns the new
\* pairs and also a pair left from the earlier store
C9_Witness ==
    /\ StoreOk
    /\ \E i \in 1..Len(hist.batch) :
          LET d == hist.batch[i]
          IN  /\ \A j \in 1..Len(hist.batch) : SameDay(hist.batch[j], d) => j = i
              /\ DOMAIN NonBase(d) # {}
              /\ DOMAIN ReadBack(rows, d) # DOMAIN NonBase(d)
              /\ \E c \in DOMAIN NonBase(d) :
                    /\ c \in DOMAIN ReadBack(hist.before, d)
                    /\ ReadBack(hist.before, d)[c] # d.rates[c]

(***************************************************************************)
(* The gap filler on its own: fill_gaps applied to inputs in any order,    *)
(* with gaps, repeated dates and dates after today.                        *)
(***************************************************************************)
\* the state in which a function is about to be called on one of `calls`
InitPure(calls) ==
    /\ today = StartDay
    /\ rows = EmptyBag
    /\ currencies = <<>>
    /\ sync_log = EmptyBag
    /\ order = <<"ecb", "nbu">>
    /\ tasks = [t \in Tasks |-> IdleTask]
    /\ faults = [db |-> 0, remote |-> 0]
    /\ hist = NoHist
    /\ pure \in calls

\* how many days before today the input dates start
FillSpan == 3
\* longest input sequence
MaxLen == 3

\* the label fill_gaps is called with
FillLabel == "ecb"

\* the DailyRates of the inputs: a USD table tagged with the label, and a
\* GBP table tagged otherwise, on each day from today - FillSpan to tomorrow
FillEntries ==
    {[date |-> d, base_currency |-> "USD",
      rates |-> [c \in {"USD", "EUR"} |-> IF c = "USD" THEN One ELSE <<1, 2>>],
      provider |-> FillLabel] : d \in (StartDay - FillSpan)..(StartDay + 1)}
    \cup
    {[date |-> d, base_currency |-> "GBP",
      rates |-> [c \in {"GBP", "EUR"} |-> IF c = "GBP" THEN One ELSE <<2, 1>>],
      provider |-> "raw"] : d \in (StartDay - FillSpan)..(StartDay + 1)}

FillInputs == UNION {[1..n -> FillEntries] : n \in 0..MaxLen}

InitFill ==
    InitPure({[op |-> "fill_gaps", input |-> i, out |-> <<>>, done |-> FALSE] :
                 i \in FillInputs})

\* fill_gaps(rates, provider_name) returns
FillGaps ==
    /\ pure.op = "fill_gaps" /\ ~pure.done
    /\ pure' = [pure EXCEPT !.out = fill_gaps(pure.input, FillLabel, today),
                            !.done = TRUE]
    /\ UNCHANGED <<today, rows, currencies, sync_log, order, tasks, faults, hist>>

NextFill == FillGaps

SpecFill == InitFill /\ [][NextFill]_vars

FillDone == pure.op = "fill_gaps" /\ pure.done

\* the dates of a sequence of DailyRates, in its order
Dates(seq) == [i \in 1..Len(seq) |-> seq[i].date]

InputDates == {pure.input[i].date : i \in 1..Len(pure.input)}

\* every calendar day from a to b, ascending
DaySeq(a, b) == [i \in 1..(IF b >= a THEN b - a + 1 ELSE 0) |-> a + i - 1]

MinDate(S) == CHOOSE d \in S : \A e \in S : d <= e

DistinctDates(seq) ==
    \A i, j \in 1..Len(seq) : seq[i].date = seq[j].date => i = j

\* C11 as stated: for any non-empty input, in any order, the dates of the
\* output of fill_gaps are exactly every calendar day from the minimum input
\* date to today, ascending without repetition; empty input gives empty output.
C11_DenseToToday ==
    FillDone =>
        IF pure.input = <<>> THEN pure.out = <<>>
        ELSE Dates(pure.out) = DaySeq(MinDate(InputDates), today)

\* C11 amended: the same for any non-empty input whose dates are pairwise
\* distinct and none later than today; empty input gives empty output.
C11_DenseToTodayDistinct ==
    FillDone =>
        IF pure.input = <<>> THEN pure.out = <<>>
        ELSE DistinctDates(pure.input) /\ (\A d \in InputDates : d <= today) =>
                Dates(pure.out) = DaySeq(MinDate(InputDates), today)

\* an input out of order with a gap, ending before today, has been filled
C11_Witness ==
    /\ FillDone
    /\ DistinctDates(pure.input) /\ \A d \in InputDates : d < today
    /\ \E i \in 1..Len(pure.input) :
          i > 1 /\ pure.input[i].date + 1 < pure.input[i - 1].date
    /\ Len(pure.out) > Len(pure.input) + 1

\* the output entry at k was synthesized: no input entry has its date
Synthetic(k) == pure.out[k].date \notin InputDates

\* the nearest preceding input entry by date of output entry k (the last in
\* input order when several input entries share that date)
Preceding(k) ==
    LET ds == {d \in InputDates : d < pure.out[k].date}
        m == CHOOSE d \in ds : \A e \in ds : e <= d
        is == {i \in 1..Len(pure.input) : pure.input[i].date = m}
    IN  pure.input[CHOOSE i \in is : \A j \in is : j <= i]

\* C12: every synthetic entry of fill_gaps, between two known dates or in the
\* forward fill, carries the rate table and the base currency of the nearest
\* preceding input entry by date.
C12_SyntheticCopiesPreceding ==
    FillDone =>
        \A k \in 1..Len(pure.out) :
            Synthetic(k) =>
                /\ \E d \in InputDates : d < pure.out[k].date
                /\ pure.out[k].rates = Preceding(k).rates
                /\ pure.out[k].base_currency = Preceding(k).base_currency

\* a gap between two entries with different tables and the days after the
\* last entry have been filled
C12_Witness ==
    /\ FillDone
    /\ \E k \in 1..Len(pure.out) :
          /\ Synthetic(k) /\ Preceding(k).base_currency = "GBP"
          /\ \E d \in InputDates : d > pure.out[k].date
    /\ \E k \in 1..Len(pure.out) :
          /\ Synthetic(k) /\ Preceding(k).base_currency = "USD"
          /\ \A d \in InputDates : d < pure.out[k].date

\* how many times e occurs in seq
Count(seq, e) == Cardinality({i \in 1..Len(seq) : seq[i] = e})

\* C13: every synthetic entry of fill_gaps(rates, label) carries the label as
\* its provider tag; every input entry is emitted unchanged, with its own
\* provider tag, and nothing else is emitted on an input date.
C13_LabelOnSyntheticOnly ==
    FillDone =>
        /\ \A k \in 1..Len(pure.out) : Synthetic(k) => pure.out[k].provider = FillLabel
        /\ \A i \in 1..Len(pure.input) :
              Count(pure.out, pure.input[i]) = Count(pure.input, pure.input[i])
        /\ Cardinality({k \in 1..Len(pure.out) : ~Synthetic(k)}) = Len(pure.input)

\* a synthetic entry follows an input entry tagged otherwise than the label
C13_Witness ==
    /\ FillDone
    /\ \E k \in 1..Len(pure.out) :
          /\ Synthetic(k) /\ Preceding(k).provider # FillLabel
          /\ pure.out[k].provider = FillLabel
    /\ \E k \in 1..Len(pure.out) : pure.out[k].provider # FillLabel

(***************************************************************************)
(* Recency and storage failures of a sync, checked under Spec.             *)
(***************************************************************************)
\* the days a table holds for a provider, as dates
DaysIn(tbl, p) ==
    {parse_from_str(r.date) : r \in {s \in DOMAIN tbl : s.provider = p}}

\* C14: when a sync of a registered provider returns success having persisted
\* at least one row, that provider's latest stored date is today.
C14_SyncReachesToday ==
    [][\A t \in Tasks :
          /\ tasks[t].pc = "store_currencies"
          /\ tasks'[t].pc # "store_currencies"
          /\ tasks'[t].res.ok /\ tasks'[t].res.count > 0
          => LatestDay(DaysIn(rows', tasks[t].name)) = today']_vars

\* C16: a storage failure inside sync_provider is not followed by success:
\* once sync_provider has returned a storage error to sync_all_providers, the
\* next step of that call is to return an error itself.
C16_StorageFailurePropagates ==
    [][\A t \in Tasks :
          /\ tasks[t].pc = "log_sync"
          /\ ~tasks[t].res.ok /\ tasks[t].res.err = "Database"
          /\ tasks'[t] # tasks[t]
          => tasks'[t].pc = "done" /\ ~tasks'[t].ret.ok]_vars

(***************************************************************************)
(* A source that never answers: sync_all_providers started once, the       *)
(* requests to one provider's remote never returning.                      *)
(***************************************************************************)
\* the provider whose remote accepts requests and never answers
HungProvider == "ecb"

\* the provider call returns, for any provider but the hung one
FetchAnswered ==
    \E t \in Tasks :
        /\ tasks[t].pc = "fetch"
        /\ tasks[t].name # HungProvider
        /\ \E resp \in Responses(t) : FetchAnswer(t, AnswerTo(t, resp))

NextHang ==
    \/ Startup
    \/ GetLatestDate
    \/ FetchAnswered
    \/ StoreRates
    \/ StoreCurrencies
    \/ LogSync

\* every step of the call that can be taken is taken: the runtime polls a
\* task whose awaited operation has returned
SpecHang ==
    /\ Init
    /\ [][NextHang]_vars
    /\ WF_vars(GetLatestDate)
    /\ WF_vars(FetchAnswered)
    /\ WF_vars(StoreRates)
    /\ WF_vars(StoreCurrencies)
    /\ WF_vars(LogSync)

\* sync_provider(p) has returned inside the sync_all_providers call of task t
SyncedIn(t, p) ==
    \E i \in 1..Len(order) :
        /\ order[i] = p
        /\ \/ i < tasks[t].idx
           \/ i = tasks[t].idx /\ tasks[t].pc \in {"log_sync", "done"}

\* C15: when the fetch of one provider never returns during
\* sync_all_providers, the sync of every other registered provider still
\* eventually completes in that call.
C15_HungSourceDoesNotStall ==
    \A p \in Registry \ {HungProvider} :
        (tasks[1].pc = "fetch" /\ tasks[1].name = HungProvider) ~> SyncedIn(1, p)

(***************************************************************************)
(* Concurrent syncs of one provider over the same remote data: several     *)
(* sync_provider calls for the provider, every fetch answered alike.       *)
(***************************************************************************)
\* the answers of a remote that does not fail, on the first day
RaceResponses(p) ==
    IF p = "ecb" THEN {r \in EcbResponses(StartDay) : ~EcbFailed(r)}
    ELSE {r \in NbuResponses(NbuHistoryStart, StartDay, StartDay) : ~NbuFailed(r)}

InitRace ==
    InitPure(UNION {{[op |-> "sync_provider", input |-> [name |-> p, resp |-> r],
                      out |-> <<>>, done |-> FALSE] : r \in RaceResponses(p)} :
                        p \in Registry})

\* sync_provider(name) is called, up to its first await
RaceStart ==
    \E t \in Tasks :
        /\ CanStart(t)
        /\ tasks' = [tasks EXCEPT ![t] =
                        [IdleTask EXCEPT !.pc = "get_latest_date", !.kind = "one",
                                         !.name = pure.input.name]]
        /\ UNCHANGED <<today, rows, currencies, sync_log, order, faults, hist, pure>>

\* the provider call returns what the remote answers to every request
FetchSame ==
    \E t \in Tasks :
        /\ tasks[t].pc = "fetch"
        /\ FetchAnswer(t, AnswerTo(t, pure.input.resp))

NextRace ==
    \/ RaceStart
    \/ GetLatestDate
    \/ FetchSame
    \/ StoreRates
    \/ StoreCurrencies

SpecRace == InitRace /\ [][NextRace]_vars

\* the rows one sync of the provider on empty storage produces from the
\* remote's answer
SingleSyncRows ==
    LET resp == pure.input.resp
        got == IF pure.input.name = "ecb" THEN ecb_fetch_full_history(resp, today)
               ELSE nbu_fetch_full_history(resp, today)
    IN  store_daily_rates_batch(EmptyBag, got.rates, 0).rows

\* task t has written its rate rows
Wrote(t) ==
    \/ tasks[t].pc = "store_currencies"
    \/ tasks[t].pc = "done" /\ tasks[t].ret.ok

\* C17: concurrent syncs of one provider that fetch the same data leave, once
\* they have written, exactly the rows a single sync produces: no duplicate
\* row, no row missing, and never a partial set in between.
C17_ConcurrentSyncsSameRows ==
    /\ pure.op = "sync_provider" => rows \in {EmptyBag, SingleSyncRows}
    /\ \A t \in Tasks :
          pure.op = "sync_provider" /\ Wrote(t) => rows = SingleSyncRows

\* two syncs both found storage empty, both fetched the full history and both
\* have stored it
C17_Witness ==
    /\ pure.op = "sync_provider"
    /\ \E t, u \in Tasks :
          /\ t # u
          /\ \A v \in {t, u} :
                /\ tasks[v].pc = "store_currencies"
                /\ tasks[v].call.op = "fetch_full_history"
                /\ tasks[v].count > 0

(***************************************************************************)
(* Base conversion on its own: service.rs, convert_base_currency.  The     *)
(* quotes are binary floating-point numbers: a division returns the exact  *)
(* quotient rounded to the nearest number with FloatBits significant bits  *)
(* (ties to even), as an f64 division does with 53 bits.                   *)
(***************************************************************************)
\* significant bits of the floating-point numbers
FloatBits == 4

\* n / d rounded to the nearest integer, ties to even
RoundHalfEven(n, d) ==
    LET q == n \div d
        r == n % d
    IN  IF 2 * r > d THEN q + 1
        ELSE IF 2 * r < d THEN q
        ELSE IF q % 2 = 0 THEN q ELSE q + 1

\* n / d scaled by powers of two until its integer part has FloatBits bits,
\* rounded there and scaled back by mul / div
RECURSIVE FlScale(_, _, _, _)
FlScale(n, d, mul, div) ==
    IF n >= d * 2 ^ FloatBits THEN FlScale(n, 2 * d, 2 * mul, div)
    ELSE IF n < d * 2 ^ (FloatBits - 1) THEN FlScale(2 * n, d, mul, 2 * div)
    ELSE Norm(RoundHalfEven(n, d) * mul, div)

\* the floating-point number nearest to the rational q >= 0
Fl(q) == IF q[1] = 0 THEN <<0, 1>> ELSE FlScale(q[1], q[2], 1, 1)

\* a / b on floating-point numbers
FDiv(a, b) == Fl(RDiv(a, b))

\* Result<HashMap<String, f64>>
ConvOk(rates) == [ok |-> TRUE, err |-> None, code |-> None, rates |-> rates]
ConvErr(kind, code) == [ok |-> FALSE, err |-> kind, code |-> code, rates |-> <<>>]
NoConv == [ok |-> FALSE, err |-> None, code |-> None, rates |-> <<>>]

\* the conversion without the final insert of the original base
convert_without_from_base(rates, from_base, to_base) ==
    IF from_base = to_base THEN ConvOk(rates)
    ELSE IF to_base \notin DOMAIN rates THEN ConvErr("InvalidCurrency", to_base)
    ELSE ConvOk([c \in DOMAIN rates \ {to_base} |-> FDiv(rates[c], rates[to_base])])

\* the conversion taking a missing quote of the target base as 1.0
convert_missing_as_one(rates, from_base, to_base) ==
    IF from_base = to_base THEN ConvOk(rates)
    ELSE LET conversion_rate == IF to_base \in DOMAIN rates THEN rates[to_base]
                                ELSE One
         IN  ConvOk([c \in (DOMAIN rates \ {to_base}) \cup {from_base} |->
                        IF c = from_base THEN FDiv(One, conversion_rate)
                        ELSE FDiv(rates[c], conversion_rate)])

\* RatesService::convert_base_currency
convert_base_currency(rates, from_base, to_base) ==
    IF from_base = to_base THEN ConvOk(rates)
    ELSE IF to_base \notin DOMAIN rates THEN ConvErr("InvalidCurrency", to_base)
    ELSE LET conversion_rate == rates[to_base]
         IN  ConvOk([c \in (DOMAIN rates \ {to_base}) \cup {from_base} |->
                        IF c = from_base THEN FDiv(One, conversion_rate)
                        ELSE FDiv(rates[c], conversion_rate)])

\* the currencies and the quotes of the tables converted
ConvCodes == {"USD", "EUR", "JPY"}
ConvQuotes == {One, <<3, 2>>, <<5, 4>>, <<10, 1>>, <<13, 16>>}

ConvTables == UNION {[S -> ConvQuotes] : S \in SUBSET ConvCodes}

NoConvOut == [fwd |-> NoConv, back |-> NoConv, n |-> 0]

InitConvert ==
    InitPure({[op |-> "convert_base_currency",
               input |-> [rates |-> T, from |-> A, to |-> B],
               out |-> NoConvOut, done |-> FALSE] :
                 T \in ConvTables, A \in ConvCodes, B \in ConvCodes})

\* convert_base_currency(T, A, B) returns
Convert ==
    /\ pure.op = "convert_base_currency" /\ pure.out.n = 0
    /\ pure' = [pure EXCEPT
                   !.out.fwd = convert_base_currency(pure.input.rates,
                                                     pure.input.from, pure.input.to),
                   !.out.n = 1]
    /\ UNCHANGED <<today, rows, currencies, sync_log, order, tasks, faults, hist>>

\* the result is converted back: convert_base_currency(T', B, A) returns
ConvertBack ==
    /\ pure.op = "convert_base_currency" /\ pure.out.n = 1 /\ pure.out.fwd.ok
    /\ pure' = [pure EXCEPT
                   !.out.back = convert_base_currency(pure.out.fwd.rates,
                                                      pure.input.to, pure.input.from),
                   !.out.n = 2, !.done = TRUE]
    /\ UNCHANGED <<today, rows, currencies, sync_log, order, tasks, faults, hist>>

NextConvert == Convert \/ ConvertBack

SpecConvert == InitConvert /\ [][NextConvert]_vars

\* T is quoted against A (A present at 1.0) and has a non-zero quote for B
QuotedAgainst ==
    LET T == pure.input.rates
    IN  /\ pure.input.from \in DOMAIN T /\ T[pure.input.from] = One
        /\ pure.input.to \in DOMAIN T /\ T[pure.input.to][1] # 0

\* |a - b| is at most four units of relative precision of b
Close(a, b) ==
    LET diff == a[1] * b[2] - b[1] * a[2]
        abs == IF diff < 0 THEN 0 - diff ELSE diff
    IN  abs * 2 ^ FloatBits <= 4 * b[1] * a[2]

RMul(a, b) == Norm(a[1] * b[1], a[2] * b[2])

\* a * b on floating-point numbers
FMul(a, b) == Fl(RMul(a, b))

\* f64::round of n / d >= 0: to the nearest integer, ties away from zero
RoundHalfAway(n, d) == (2 * n + d) \div (2 * d)

\* RatesService::round_rate: (rate * 1_000_000.0).round() / 1_000_000.0
round_rate(rate) ==
    Fl(Norm(RoundHalfAway(rate[1] * 1000000, rate[2]), 1000000))

\* Option<&[String]>
NoSymbols == [some |-> FALSE, list |-> <<>>]
Symbols(list) == [some |-> TRUE, list |-> list]

Range(seq) == {seq[i] : i \in DOMAIN seq}

\* full_rates, or the table converted to the requested base
converted_rates(usd_rates, base) ==
    LET full_rates == insert_pivot(usd_rates, INTERNAL_BASE)
    IN  IF base = INTERNAL_BASE THEN ConvOk(full_rates)
        ELSE convert_base_currency(full_rates, INTERNAL_BASE, base)

\* the query failing for a requested symbol that the table does not hold
get_rates_for_date_strict_symbols(read_ok, usd_rates, base, symbols, amount) ==
    IF ~read_ok THEN ConvErr("Database", None)
    ELSE IF DOMAIN usd_rates = {} THEN ConvErr("NoDataAvailable", None)
    ELSE LET rates == converted_rates(usd_rates, base)
         IN  IF ~rates.ok THEN rates
             ELSE IF symbols.some /\ \E k \in Range(symbols.list) :
                                         k \notin DOMAIN rates.rates
                  THEN ConvErr("InvalidCurrency", None)
             ELSE LET kept == IF symbols.some
                              THEN DOMAIN rates.rates \cap Range(symbols.list)
                              ELSE DOMAIN rates.rates
                  IN  ConvOk([k \in kept |-> round_rate(FMul(rates.rates[k], amount))])

\* RatesService::get_rates_for_date, from the result of the repository read
service_get_rates_for_date(read_ok, usd_rates, base, symbols, amount) ==
    IF ~read_ok THEN ConvErr("Database", None)
    ELSE IF DOMAIN usd_rates = {} THEN ConvErr("NoDataAvailable", None)
    ELSE LET rates == converted_rates(usd_rates, base)
         IN  IF ~rates.ok THEN rates
             ELSE LET kept == IF symbols.some
                              THEN {k \in DOMAIN rates.rates : k \in Range(symbols.list)}
                              ELSE DOMAIN rates.rates
                  IN  ConvOk([k \in kept |-> round_rate(FMul(rates.rates[k], amount))])

\* the arguments of the queries made
QueryBases == ConvCodes \cup {"ZZZ"}
QuerySymbols ==
    {NoSymbols, Symbols(<<>>), Symbols(<<"EUR", "ZZZ">>), Symbols(<<"ZZZ">>),
     Symbols(<<"USD", "JPY">>)}
\* 2^-21, an amount below half a millionth
TinyAmount == <<1, 2097152>>
QueryAmounts == {One, <<2, 1>>}

QueryCalls ==
    {[op |-> "get_rates_for_date",
      input |-> [read_ok |-> ok, rates |-> T, base |-> B, symbols |-> S, amount |-> a],
      out |-> NoConv, done |-> FALSE] :
        ok \in BOOLEAN, T \in ConvTables, B \in QueryBases, S \in QuerySymbols,
        a \in QueryAmounts}
    \cup
    {[op |-> "get_rates_for_date",
      input |-> [read_ok |-> TRUE, rates |-> T, base |-> B, symbols |-> S,
                 amount |-> TinyAmount],
      out |-> NoConv, done |-> FALSE] :
        T \in UNION {[C -> {One}] : C \in SUBSET ConvCodes}, B \in QueryBases,
        S \in QuerySymbols}

ConvertCalls ==
    {[op |-> "convert_base_currency",
      input |-> [rates |-> T, from |-> A, to |-> B],
      out |-> NoConvOut, done |-> FALSE] :
        T \in ConvTables, A \in ConvCodes, B \in QueryBases}

InitQuery == InitPure(QueryCalls \cup ConvertCalls)

\* get_rates_for_date(date, base, symbols, amount) returns
GetRatesForDate ==
    /\ pure.op = "get_rates_for_date" /\ ~pure.done
    /\ pure' = [pure EXCEPT
                   !.out = service_get_rates_for_date(pure.input.read_ok,
                               pure.input.rates, pure.input.base,
                               pure.input.symbols, pure.input.amount),
                   !.done = TRUE]
    /\ UNCHANGED <<today, rows, currencies, sync_log, order, tasks, faults, hist>>

NextQuery == Convert \/ ConvertBack \/ GetRatesForDate

SpecQuery == InitQuery /\ [][NextQuery]_vars

\* the query has read a non-empty table for the date
QueryRead ==
    /\ pure.op = "get_rates_for_date" /\ pure.done
    /\ pure.input.read_ok /\ DOMAIN pure.input.rates # {}

\* C19: convert_base_currency with a target base B other than the current
\* base fails with InvalidCurrency(B) exactly when the table has no quote for
\* B and returns a table otherwise; get_rates_for_date for a base absent from
\* the table of the date (the stored quotes and the pivot) fails with
\* InvalidCurrency for that base and returns no rates at all.
C19_InvalidCurrencyIffAbsent ==
    /\ pure.op = "convert_base_currency" /\ pure.out.n >= 1
           /\ pure.input.from # pure.input.to =>
          IF pure.input.to \in DOMAIN pure.input.rates
          THEN /\ pure.out.fwd.ok /\ pure.out.fwd.err = None
               /\ pure.input.from \in DOMAIN pure.out.fwd.rates
          ELSE pure.out.fwd = ConvErr("InvalidCurrency", pure.input.to)
    /\ QueryRead /\ pure.input.base \notin DOMAIN pure.input.rates \cup {INTERNAL_BASE} =>
          /\ pure.out = ConvErr("InvalidCurrency", pure.input.base)
          /\ DOMAIN pure.out.rates = {}
    /\ QueryRead /\ pure.out.err = "InvalidCurrency" =>
          pure.input.base \notin DOMAIN pure.input.rates \cup {INTERNAL_BASE}

\* a query for a base that the table of the date does not hold has failed
C19_Witness ==
    /\ QueryRead /\ pure.input.base = "ZZZ"
    /\ "EUR" \in DOMAIN pure.input.rates
    /\ pure.out.err = "InvalidCurrency"

\* C20: get_rates_for_date with a symbols list succeeds with exactly the
\* requested symbols that the converted table holds: a requested symbol that
\* is absent is dropped without error, and the rate map is empty when none of
\* the requested symbols is present.
C20_SymbolsIntersect ==
    QueryRead /\ pure.input.symbols.some
        /\ converted_rates(pure.input.rates, pure.input.base).ok =>
            /\ pure.out.ok
            /\ DOMAIN pure.out.rates =
                   Range(pure.input.symbols.list)
                       \cap DOMAIN converted_rates(pure.input.rates, pure.input.base).rates

\* a query for EUR and ZZZ over a table that holds EUR has returned EUR alone
C20_Witness ==
    /\ QueryRead /\ pure.input.symbols = Symbols(<<"EUR", "ZZZ">>)
    /\ pure.out.ok /\ DOMAIN pure.out.rates = {"EUR"}

(***************************************************************************)
(* The query for a range of dates: service.rs, get_time_series, over the   *)
(* stored rows that repository.rs, get_rates_for_range, selects.           *)
(***************************************************************************)
\* the stored days reach back this far from StartDay
SeriesSpan == 2

\* the same SELECT with the end of the range excluded
get_rates_for_range_exclusive(tbl, start, end, base_currency, provider) ==
    LET hit == {r \in DOMAIN tbl :
                    /\ TextLeq(date_to_string(start), r.date)
                    /\ TextLess(r.date, date_to_string(end))
                    /\ r.base_currency = base_currency
                    /\ (provider = None \/ r.provider = provider)}
    IN  [d \in {parse_from_str(r.date) : r \in hit} |->
            LET day == {r \in hit : parse_from_str(r.date) = d}
            IN  [c \in {r.target_currency : r \in day} |->
                    (CHOOSE r \in day : r.target_currency = c).rate]]

\* SELECT ... WHERE date >= ? AND date <= ? AND base_currency = ?
\* [AND provider = ?] ORDER BY date, collected into date -> (target -> rate)
get_rates_for_range(tbl, start, end, base_currency, provider) ==
    LET hit == {r \in DOMAIN tbl :
                    /\ TextLeq(date_to_string(start), r.date)
                    /\ TextLeq(r.date, date_to_string(end))
                    /\ r.base_currency = base_currency
                    /\ (provider = None \/ r.provider = provider)}
    IN  [d \in {parse_from_str(r.date) : r \in hit} |->
            LET day == {r \in hit : parse_from_str(r.date) = d}
            IN  [c \in {r.target_currency : r \in day} |->
                    (CHOOSE r \in day : r.target_currency = c).rate]]

\* one day of the series: the symbols kept, the amount applied, rounded
filter_and_round(day_rates, symbols, amount) ==
    LET kept == IF symbols.some
                THEN {k \in DOMAIN day_rates : k \in Range(symbols.list)}
                ELSE DOMAIN day_rates
    IN  [k \in kept |-> round_rate(FMul(day_rates[k], amount))]

\* the series leaving out the days that cannot be converted
get_time_series_skipping(read_ok, tbl, start, end, base, symbols, amount) ==
    IF ~read_ok THEN ConvErr("Database", None)
    ELSE LET usd_rates == get_rates_for_range(tbl, start, end, INTERNAL_BASE, None)
             good == {d \in DOMAIN usd_rates : converted_rates(usd_rates[d], base).ok}
         IN  IF DOMAIN usd_rates = {} THEN ConvErr("NoDataAvailable", None)
             ELSE ConvOk([d \in good |->
                     filter_and_round(converted_rates(usd_rates[d], base).rates,
                                      symbols, amount)])

\* RatesService::get_time_series, from the stored rows
service_get_time_series(read_ok, tbl, start, end, base, symbols, amount) ==
    IF ~read_ok THEN ConvErr("Database", None)
    ELSE LET usd_rates == get_rates_for_range(tbl, start, end, INTERNAL_BASE, None)
         IN  IF DOMAIN usd_rates = {} THEN ConvErr("NoDataAvailable", None)
             ELSE IF \E d \in DOMAIN usd_rates : ~converted_rates(usd_rates[d], base).ok
                  THEN ConvErr("InvalidCurrency", base)
             ELSE ConvOk([d \in DOMAIN usd_rates |->
                     filter_and_round(converted_rates(usd_rates[d], base).rates,
                                      symbols, amount)])

\* the days that can hold stored rates, and what one day holds
SeriesDays == (StartDay - SeriesSpan)..StartDay
SeriesDayTables ==
    {<<>>, [EUR |-> <<3, 2>>], [JPY |-> <<10, 1>>],
     [EUR |-> <<3, 2>>, JPY |-> <<10, 1>>]}

\* the rows stored for a choice of one table per day
RECURSIVE SeriesBatch(_, _)
SeriesBatch(choice, d) ==
    IF d > StartDay THEN <<>>
    ELSE <<[date |-> d, base_currency |-> INTERNAL_BASE, rates |-> choice[d],
            provider |-> "ecb"]>> \o SeriesBatch(choice, d + 1)

SeriesStorages ==
    {store_daily_rates_batch(EmptyBag, SeriesBatch(choice, StartDay - SeriesSpan), 0).rows :
        choice \in [SeriesDays -> SeriesDayTables]}

SeriesCalls ==
    {[op |-> "get_time_series",
      input |-> [read_ok |-> ok, start |-> from, end |-> to, base |-> B,
                 symbols |-> S, amount |-> One],
      out |-> NoConv, done |-> FALSE] :
        ok \in BOOLEAN,
        from \in (StartDay - SeriesSpan - 1)..(StartDay + 1),
        to \in (StartDay - SeriesSpan - 1)..(StartDay + 1),
        B \in {"USD", "EUR", "ZZZ"},
        S \in {NoSymbols, Symbols(<<"EUR", "ZZZ">>)}}

InitSeries ==
    /\ today = StartDay
    /\ rows \in SeriesStorages
    /\ currencies = <<>>
    /\ sync_log = EmptyBag
    /\ order = <<"ecb", "nbu">>
    /\ tasks = [t \in Tasks |-> IdleTask]
    /\ faults = [db |-> 0, remote |-> 0]
    /\ hist = NoHist
    /\ pure \in SeriesCalls

\* get_time_series(start, end, base, symbols, amount) returns
GetTimeSeries ==
    /\ pure.op = "get_time_series" /\ ~pure.done
    /\ pure' = [pure EXCEPT
                   !.out = service_get_time_series(pure.input.read_ok, rows,
                               pure.input.start, pure.input.end, pure.input.base,
                               pure.input.symbols, pure.input.amount),
                   !.done = TRUE]
    /\ UNCHANGED <<today, rows, currencies, sync_log, order, tasks, faults, hist>>

NextSeries == GetTimeSeries

SpecSeries == InitSeries /\ [][NextSeries]_vars

\* the call has returned, the rows having been read
SeriesRead == pure.op = "get_time_series" /\ pure.done /\ pure.input.read_ok

\* the days of the requested range that have stored rates
StoredInRange ==
    {d \in pure.input.start..pure.input.end :
        \E r \in DOMAIN rows : r.date = date_to_string(d)}

\* C21: a get_time_series call that returns a series returns exactly the
\* dates of start..end that have stored rates, and the call fails with
\* NoDataAvailable exactly when no date of the range has stored rates.
C21_SeriesDates ==
    SeriesRead =>
        /\ pure.out.ok => DOMAIN pure.out.rates = StoredInRange
        /\ pure.out.err = "NoDataAvailable" <=> StoredInRange = {}

\* a range that starts before the stored data and holds a day without rates
\* between two stored days has returned only the stored dates
C21_Witness ==
    /\ SeriesRead /\ pure.out.ok
    /\ pure.input.start < StartDay - SeriesSpan
    /\ DOMAIN pure.out.rates # {}
    /\ DOMAIN pure.out.rates # pure.input.start..pure.input.end
    /\ \E d \in pure.input.start..pure.input.end :
          /\ d \notin DOMAIN pure.out.rates
          /\ d - 1 \in DOMAIN pure.out.rates /\ d + 1 \in DOMAIN pure.out.rates

\* C27: for a base other than USD, get_time_series fails with
\* InvalidCurrency(base) and returns no series when a stored date of the
\* range lacks a quote for the base, and returns every stored date of the
\* range otherwise.
C27_SeriesAllOrNothing ==
    SeriesRead /\ pure.input.base # INTERNAL_BASE /\ StoredInRange # {} =>
        IF \E d \in StoredInRange :
               \A r \in DOMAIN rows :
                   r.date = date_to_string(d) => r.target_currency # pure.input.base
        THEN pure.out = ConvErr("InvalidCurrency", pure.input.base)
        ELSE pure.out.ok /\ DOMAIN pure.out.rates = StoredInRange

\* a range with two stored dates, one of them without a quote for the base,
\* has failed as a whole
C27_Witness ==
    /\ SeriesRead /\ pure.input.base = "EUR"
    /\ pure.out.err = "InvalidCurrency" /\ DOMAIN pure.out.rates = {}
    /\ \E d \in StoredInRange :
          \E r \in DOMAIN rows : r.date = date_to_string(d) /\ r.target_currency = "EUR"

(***************************************************************************)
(* The currency catalog on its own: the end of sync_provider, which asks   *)
(* the provider for its supported currencies and stores them.              *)
(***************************************************************************)
\* how many syncs reach the catalog
MaxCatalogSyncs == 3

\* what the current-snapshot endpoint of the NBU may hold from one sync to
\* the next: the (cc, txt) pairs of its records
CatalogSnapshots ==
    {[fail |-> FALSE, recs |-> r] :
        r \in {<<>>, <<<<"USD", "Dolar SShA">>>>, <<<<"KZT", "Tenge">>>>,
               <<<<"USD", "Dolar SShA">>, <<"KZT", "Tenge">>>>}}

\* what supported_currencies of the provider returns when it succeeds
CatalogLists(name) ==
    IF name = "ecb" THEN {ecb_supported_currencies}
    ELSE {nbu_supported_currencies(snapshot) : snapshot \in CatalogSnapshots}

NoCatalogCall ==
    [op |-> "store_currencies", input |-> [provider |-> None, list |-> <<>>],
     out |-> NoRes, done |-> FALSE, n |-> 0]

InitCatalog == InitPure({NoCatalogCall})

\* sync_provider: supported_currencies returns a list, store_currencies
\* stores it and sync_provider returns
SyncCatalog ==
    /\ pure.op = "store_currencies" /\ pure.n < MaxCatalogSyncs
    /\ \E name \in Registry :
         \E list \in CatalogLists(name) :
           \E fail \in 0..Len(list) :
              LET out == store_currencies(currencies, list, name, fail)
              IN  /\ currencies' = out.currencies
                  /\ pure' = [op |-> "store_currencies",
                              input |-> [provider |-> name, list |-> list],
                              out |-> out.res, done |-> TRUE, n |-> pure.n + 1]
    /\ UNCHANGED <<today, rows, sync_log, order, tasks, faults, hist>>

NextCatalog == SyncCatalog

SpecCatalog == InitCatalog /\ [][NextCatalog]_vars

\* the (code, name) pairs of the catalog attributed to a provider
CatalogOf(cat, name) ==
    {<<c, cat[c].name>> : c \in {x \in DOMAIN cat : cat[x].provider = name}}

\* C22: after a successful sync of provider p the catalog entries attributed
\* to p are exactly the code -> name list that supported_currencies of p
\* reported in that sync.
C22_CatalogReplaced ==
    pure.op = "store_currencies" /\ pure.done /\ pure.out.ok =>
        CatalogOf(currencies, pure.input.provider) = Range(pure.input.list)

\* C29: store_currencies(pairs, p) leaves the name and the provider of every
\* catalog entry stored by another provider as they were, also when p reports
\* a code that the other provider stored before.
C29_OtherProviderUntouched ==
    [][pure'.op = "store_currencies" /\ pure'.done =>
          \A c \in DOMAIN currencies :
              currencies[c].provider # pure'.input.provider =>
                  c \in DOMAIN currencies' /\ currencies'[c] = currencies[c]]_vars

(***************************************************************************)
(* The default fetch_range of the Provider trait: providers/provider.rs.   *)
(* The date type is narrowed: NAIVE_DATE_MAX stands for NaiveDate::MAX,    *)
(* the day that has no successor.                                          *)
(***************************************************************************)
\* how many days after StartDay the date type ends
FetchSpan == 2

NAIVE_DATE_MAX == StartDay + FetchSpan

\* the calls and the results are recorded up to this length
MaxCalls == FetchSpan + 3

\* NaiveDate::succ_opt
succ_opt(d) == IF d < NAIVE_DATE_MAX THEN Some(d + 1) ELSE NoDate

\* Option::unwrap_or
unwrap_or(opt, default) == IF opt = NoDate THEN default ELSE opt[1]

\* fetch_date of a provider whose source fails on the days of `fails`
fetch_date(d, fails) ==
    IF d \in fails THEN [ok |-> FALSE, rates |-> <<>>]
    ELSE [ok |-> TRUE,
          rates |-> [date |-> d, base_currency |-> INTERNAL_BASE,
                     rates |-> [EUR |-> <<3, 2>>], provider |-> "default"]]

\* seq with e pushed, the record kept to MaxCalls entries
Push(seq, e) == IF Len(seq) < MaxCalls THEN Append(seq, e) ELSE seq

\* the match on the result of fetch_date with the error arm returning it
match_fetch_date_fatal(results, r) ==
    IF r.ok THEN [results |-> Push(results, r.rates), fatal |-> FALSE]
    ELSE [results |-> results, fatal |-> TRUE]

\* the match on the result of fetch_date: Ok is pushed, Err is logged
match_fetch_date(results, r) ==
    IF r.ok THEN [results |-> Push(results, r.rates), fatal |-> FALSE]
    ELSE [results |-> results, fatal |-> FALSE]

FetchDays == StartDay..NAIVE_DATE_MAX

FetchRangeCalls ==
    {[op |-> "fetch_range",
      input |-> [start |-> a, end |-> b, fails |-> F],
      out |-> [pc |-> "while", current |-> a, results |-> <<>>, calls |-> <<>>,
               res |-> NoRes],
      done |-> FALSE] :
        a \in FetchDays, b \in FetchDays, F \in SUBSET FetchDays}

InitFetch == InitPure(FetchRangeCalls)

\* while current <= end: fetch_date(current) returns and is matched
FetchDate ==
    /\ pure.op = "fetch_range" /\ pure.out.pc = "while"
    /\ pure.out.current <= pure.input.end
    /\ LET r == fetch_date(pure.out.current, pure.input.fails)
           m == match_fetch_date(pure.out.results, r)
       IN  pure' = IF m.fatal
                   THEN [pure EXCEPT !.out.pc = "done", !.done = TRUE,
                                     !.out.calls = Push(@, pure.out.current),
                                     !.out.res = Err("Request", "fetch_date")]
                   ELSE [pure EXCEPT !.out.pc = "succ",
                                     !.out.calls = Push(@, pure.out.current),
                                     !.out.results = m.results]
    /\ UNCHANGED <<today, rows, currencies, sync_log, order, tasks, faults, hist>>

\* current = current.succ_opt().unwrap_or(current)
Succ ==
    /\ pure.op = "fetch_range" /\ pure.out.pc = "succ"
    /\ pure' = [pure EXCEPT !.out.pc = "while",
                            !.out.current = unwrap_or(succ_opt(@), @)]
    /\ UNCHANGED <<today, rows, currencies, sync_log, order, tasks, faults, hist>>

\* the loop ends: Ok(results)
FetchRangeReturn ==
    /\ pure.op = "fetch_range" /\ pure.out.pc = "while"
    /\ pure.out.current > pure.input.end
    /\ pure' = [pure EXCEPT !.out.pc = "done", !.done = TRUE,
                            !.out.res = Ok(Len(pure.out.results))]
    /\ UNCHANGED <<today, rows, currencies, sync_log, order, tasks, faults, hist>>

NextFetch == FetchDate \/ Succ \/ FetchRangeReturn

\* the call runs on: a step that can be taken is taken
SpecFetch == InitFetch /\ [][NextFetch]_vars /\ WF_vars(NextFetch)

\* the days of start..end on which fetch_date succeeds, ascending
FetchedDays ==
    SelectSeq(DaySeq(pure.input.start, pure.input.end),
              LAMBDA d : d \notin pure.input.fails)

C30_DefaultRangeTerminates ==
    (pure.op = "fetch_range" /\ pure.input.start <= pure.input.end) ~> pure.done

(***************************************************************************)
(* The batch fetch of the NBU adapter on its own: providers/nbu.rs,        *)
(* fetch_range, over what the batch endpoint answers for each code.        *)
(***************************************************************************)
\* the codes requested, and the days the batch records may carry
NbuCodes == {currencies_to_fetch[i] : i \in 1..Len(currencies_to_fetch)}
NbuBatchDays == WindowDays(StartDay)

\* what the batch request of one code may end in: a failed or unparsable
\* response, or records for some of the days
NbuBatchAnswers(c) ==
    {[fail |-> TRUE, recs |-> <<>>]}
    \cup {[fail |-> FALSE, recs |-> [d \in S |-> NbuQuote(c)]] :
             S \in SUBSET NbuBatchDays}

NbuRangeCalls ==
    {[op |-> "nbu_fetch_range",
      input |-> [start |-> StartDay - Window + 1, end |-> StartDay, resp |-> r],
      out |-> [ok |-> FALSE, err |-> None, rates |-> <<>>],
      done |-> FALSE] :
        r \in {f \in [NbuCodes -> UNION {NbuBatchAnswers(c) : c \in NbuCodes}] :
                  \A c \in NbuCodes : f[c] \in NbuBatchAnswers(c)}}

InitNbu == InitPure(NbuRangeCalls)

\* NbuProvider::fetch_range(start, end) returns
NbuFetchRange ==
    /\ pure.op = "nbu_fetch_range" /\ ~pure.done
    /\ pure' = [pure EXCEPT
                   !.out = nbu_fetch_range(pure.input.start, pure.input.end,
                                           pure.input.resp),
                   !.done = TRUE]
    /\ UNCHANGED <<today, rows, currencies, sync_log, order, tasks, faults, hist>>

NextNbu == NbuFetchRange

SpecNbu == InitNbu /\ [][NextNbu]_vars

\* the days for which the response of code c carries a record
Answered(c) ==
    IF pure.input.resp[c].fail THEN {} ELSE DOMAIN pure.input.resp[c].recs

\* C24: fetch_range of the NBU adapter returns successfully whatever batch
\* requests fail; its result holds, in ascending order, exactly the dates for
\* which the USD request brought a record (a date without the USD quote is
\* omitted entirely), and on each of them USD, UAH and every other code whose
\* own request brought a record for the date: a failed or unparsable response
\* takes away the data of its code alone.
C24_NbuRangeAbsorbsFailures ==
    pure.op = "nbu_fetch_range" /\ pure.done =>
        /\ pure.out.ok
        /\ \A k \in 1..Len(pure.out.rates) : pure.out.rates[k].date \in Answered(INTERNAL_BASE)
        /\ \A d \in Answered(INTERNAL_BASE) :
              \E k \in 1..Len(pure.out.rates) : pure.out.rates[k].date = d
        /\ \A j, k \in 1..Len(pure.out.rates) :
              j < k => pure.out.rates[j].date < pure.out.rates[k].date
        /\ \A k \in 1..Len(pure.out.rates) :
              DOMAIN pure.out.rates[k].rates =
                  {INTERNAL_BASE, "UAH"}
                      \cup {c \in NbuCodes : pure.out.rates[k].date \in Answered(c)}

\* the request of KZT has failed and a date has come without the USD quote:
\* the call has returned the other dates, without KZT
C24_Witness ==
    /\ pure.op = "nbu_fetch_range" /\ pure.done
    /\ pure.input.resp["KZT"].fail
    /\ Answered("UAH") \ Answered(INTERNAL_BASE) # {}
    /\ Len(pure.out.rates) >= 1

(***************************************************************************)
(* What the sync log tells about the stored rows, under Spec.              *)
(***************************************************************************)
\* sync_all_providers, alone since the start, has logged the sync of its
\* first provider and has not yet read or written anything for the second
FirstSyncLogged ==
    /\ tasks[1].kind = "all" /\ tasks[1].idx = 2 /\ tasks[1].pc = "get_latest_date"
    /\ \A t \in Tasks \ {1} : tasks[t].pc = "idle"

\* C25: when sync_all_providers has recorded an error entry with zero count
\* for a provider, the sync of that provider has left the stored exchange-rate
\* rows unchanged; for the first sync over the empty storage: the rows are
\* still none.
C25_ErrorEntryMeansNoRows ==
    FirstSyncLogged
        /\ (\E e \in DOMAIN sync_log :
               e.provider = order[1] /\ e.records_count = 0 /\ e.status # "success") =>
            rows = EmptyBag

(***************************************************************************)
(* Successful ECB syncs over the days: sync_provider for "ecb" as one      *)
(* step, the days passing in between, across the 90-day boundary of        *)
(* fetch_range.                                                            *)
(***************************************************************************)
\* how many syncs, and how many times the days move on
MaxEcbSyncs == 3
MaxAdvances == 3

\* how many days before StartDay the full-history document starts
EcbHistorySpan == 2

\* the document with a cube on each day of `days`
EcbDocOn(days) == [err |-> None, doc |-> EcbDoc([d \in days |-> 1])]

\* the documents the source may serve on day `now`: the full history from
\* its first day, or the last 90 days starting on the boundary day or one or
\* two days after it; the cube of the day itself may not be out yet.  Between
\* the first and the last cube the document has days without a cube (the
\* source publishes none on closing days), here all of them.
EcbDocuments(url, now) ==
    IF url = "ECB_HIST_FULL_URL"
    THEN {EcbDocOn({StartDay - EcbHistorySpan, now - lag}) : lag \in 0..1}
    ELSE {EcbDocOn({now - HIST_DAYS + late, now - lag}) : late \in 0..2, lag \in 0..1}

\* store_daily_rates_batch when nothing fails, in closed form: the commit
\* leaves, for every key inserted, the last row inserted with it, and every
\* earlier row of another key
committed_rows(tbl, batch) ==
    LET idx == UNION {{<<i, j>> : j \in 1..Len(RowsOf(batch[i]))} : i \in 1..Len(batch)}
        row(q) == RowsOf(batch[q[1]])[q[2]]
        later(q, r) == r[1] > q[1] \/ (r[1] = q[1] /\ r[2] > q[2])
        new == {row(q) : q \in {x \in idx :
                   ~\E r \in idx : later(x, r) /\ SameKey(row(x), row(r))}}
        kept == {x \in DOMAIN tbl : ~\E r \in new : SameKey(x, r)}
    IN  [rows |-> [x \in kept |-> tbl[x]] (+) SetToBag(new),
         res |-> Ok(Cardinality(idx))]

NoEcbSync ==
    [op |-> "sync_provider", input |-> [name |-> "ecb"], out |-> NoRes,
     done |-> FALSE, n |-> 0, moved |-> 0]

InitEcb == InitPure({NoEcbSync})

\* sync_provider("ecb") runs and succeeds: the latest date is read, the
\* document is fetched, parsed, filled and filtered, and the rows are stored
EcbSync ==
    /\ pure.op = "sync_provider" /\ pure.n < MaxEcbSyncs
    /\ LET last == get_latest_date(rows, "ecb")
           call == fetch_call(last, today)
           full == call.op = "fetch_full_history"
           url == IF full THEN "ECB_HIST_FULL_URL" ELSE EcbUrl(call.start[1], today)
       IN  /\ call # NoCall
           /\ \E resp \in EcbDocuments(url, today) :
                 LET got == IF full THEN ecb_fetch_full_history(resp, today)
                            ELSE ecb_fetch_range(call.start[1], call.end, resp, today)
                     out == committed_rows(rows, got.rates)
                 IN  /\ rows' = out.rows
                     /\ pure' = [pure EXCEPT !.out = out.res, !.done = TRUE,
                                             !.n = @ + 1]
    /\ UNCHANGED <<today, currencies, sync_log, order, tasks, faults, hist>>

\* the days pass until the next sync: one day, or up to the 90-day boundary
DaysPass ==
    /\ pure.op = "sync_provider" /\ pure.moved < MaxAdvances
    /\ \E k \in {1, HIST_DAYS - 1, HIST_DAYS, HIST_DAYS + 1} :
          /\ today + k <= StartDay + HIST_DAYS + 2
          /\ today' = today + k
    /\ pure' = [pure EXCEPT !.moved = @ + 1]
    /\ UNCHANGED <<rows, currencies, sync_log, order, tasks, faults, hist>>

NextEcb == EcbSync \/ DaysPass

SpecEcb == InitEcb /\ [][NextEcb]_vars

\* the days stored for a provider, as day numbers
StoredDayNumbers(name) ==
    {parse_from_str(r.date) : r \in {x \in DOMAIN rows : x.provider = name}}

\* C26: after any sequence of successful ECB syncs from empty storage, the
\* dates stored for provider ecb form a contiguous interval of calendar days:
\* no day between the earliest and the latest stored date is missing.
C26_EcbDatesContiguous ==
    pure.op = "sync_provider" =>
        LET S == StoredDayNumbers("ecb")
        IN  S # {} =>
                LET lo == CHOOSE d \in S : \A e \in S : d <= e
                    hi == CHOOSE d \in S : \A e \in S : d >= e
                IN  Cardinality(S) = hi - lo + 1

(***************************************************************************)
(* The key of the base in the answer of get_rates_for_date, under          *)
(* SpecQuery.                                                              *)
(***************************************************************************)
\* the query has returned a rate map, no symbols having been asked for
QueryUnfiltered == QueryRead /\ ~pure.input.symbols.some /\ pure.out.ok

\* the amount rounded to six decimal places, as a floating-point number
AmountRounded ==
    Fl(Norm(RoundHalfAway(pure.input.amount[1] * 1000000, pure.input.amount[2]),
            1000000))

\* C28 as stated: without a symbols filter the rate map holds the requested
\* base as a key exactly when the base is USD, where its value is the amount
\* (amount x 1.0); for any other base the map holds USD and not the base.
C28_BaseKeyOnlyForPivot ==
    QueryUnfiltered =>
        /\ pure.input.base \in DOMAIN pure.out.rates <=> pure.input.base = INTERNAL_BASE
        /\ INTERNAL_BASE \in DOMAIN pure.out.rates
        /\ pure.input.base = INTERNAL_BASE =>
              pure.out.rates[INTERNAL_BASE] = pure.input.amount

\* C28 amended: without a symbols filter the rate map holds the requested
\* base as a key exactly when the base is USD, where its value is the amount
\* rounded to six decimal places; for any other base the map holds USD and
\* not the base.
C28_BaseKeyOnlyForPivotRounded ==
    QueryUnfiltered =>
        /\ pure.input.base \in DOMAIN pure.out.rates <=> pure.input.base = INTERNAL_BASE
        /\ INTERNAL_BASE \in DOMAIN pure.out.rates
        /\ pure.input.base = INTERNAL_BASE =>
              pure.out.rates[INTERNAL_BASE] = AmountRounded

\* a query for the base EUR has returned a map with USD and without EUR
C28_Witness ==
    /\ QueryUnfiltered /\ pure.input.base = "EUR"
    /\ INTERNAL_BASE \in DOMAIN pure.out.rates
    /\ "EUR" \notin DOMAIN pure.out.rates

====
